---- MODULE Spec2Model ----
(***************************************************************************)
(* Teardown routines of the anticlust C core (src/free-memory.c):          *)
(*   free_cluster_list, free_category_indices, free_distances, free_points *)
(* modelled over an explicit heap.  Every call of free(), every read of    *)
(* a `next` field and every loop test is one step.                         *)
(***************************************************************************)
EXTENDS Integers, Sequences, FiniteSets, TLC

\* ---------------------------------------------------------------- bounds
MaxSlots == 4    \* array slots of one run: k + c + n(DISTANCES) + n(POINTS)
MaxNodes == 4    \* list nodes of one run, over all cluster chains
MaxCalls == 2    \* invocations of one release operation
MaxFree  == 2    \* free() calls recorded per allocation
MaxWild  == 2    \* reads of invalid memory a run is followed through

\* ---------------------------------------------------------------- heap
NULL      == <<"null", 0, 0>>
PointsArr == <<"points", 0, 0>>      \* storage of POINTS[n], owned by the caller
Stray     == <<"stray", 0, 0>>       \* an allocation no structure here owns
Node(i, j) == <<"node", i, j>>       \* j-th node of the chain of cluster i
Cat(i)     == <<"cat", i, 0>>
Dist(i)    == <<"dist", i, 0>>
Val(j)     == <<"val", j, 0>>

Nodes  == {Node(i, j) : i \in 0..(MaxSlots - 1), j \in 1..MaxNodes}
Cats   == {Cat(i) : i \in 0..(MaxSlots - 1)}
Dists  == {Dist(i) : i \in 0..(MaxSlots - 1)}
Vals   == {Val(j) : j \in 0..(MaxSlots - 1)}
Allocs == Nodes \cup Cats \cup Dists \cup Vals \cup {PointsArr, Stray}

Ops == {"cluster", "category", "distances", "points"}

VARIABLES
    k, PTR_CLUSTER_HEADS, next,      \* free_cluster_list arguments, node links
    c, CATEGORY_HEADS,               \* free_category_indices arguments
    dn, DISTANCES,                   \* free_distances arguments (n, DISTANCES)
    pn, POINTS, pi,                  \* free_points arguments (n, POINTS, i)
    heap, nfree,                     \* allocator: status and free() count per allocation made
    pc, calls,                       \* per operation: position, invocations so far
    ci, ptr, prev,                   \* free_cluster_list locals (i, ptr, prev)
    cati, disti, pj,                 \* loop indices of the three array loops
    iters,                           \* inner-loop iterations done per cluster (this call)
    touched,                         \* indices of POINTS whose `values` was read
    faults, crashed,                 \* undefined behaviour met so far; process aborted
    wild                             \* reads of invalid memory so far

vars == <<k, PTR_CLUSTER_HEADS, next, c, CATEGORY_HEADS, dn, DISTANCES, pn, POINTS, pi,
          heap, nfree, pc, calls, ci, ptr, prev, cati, disti, pj, iters, touched,
          faults, crashed, wild>>

args == <<k, PTR_CLUSTER_HEADS, next, c, CATEGORY_HEADS, dn, DISTANCES, pn, POINTS, pi>>

\* ---------------------------------------------------------------- construction
\* The structures as the (external) construction code leaves them.  m[i] is the
\* length of the chain of cluster i; m[i] = 0 is a cluster whose head is null.
\* Chains are acyclic and share no node; every non-null slot or row is its own
\* allocation; POINTS[j].values is allocated for j < i and uninitialised above.
RECURSIVE Total(_, _)
Total(m, x) == IF x = 0 THEN 0 ELSE m[x - 1] + Total(m, x - 1)

Init ==
    /\ k \in 0..MaxSlots
    /\ \E m \in [0..(k - 1) -> 0..MaxNodes] :
          /\ Total(m, k) <= MaxNodes
          /\ PTR_CLUSTER_HEADS = [x \in 0..(k - 1) |-> IF m[x] = 0 THEN NULL ELSE Node(x, 1)]
          /\ c \in 0..(MaxSlots - k)
          /\ CATEGORY_HEADS \in [0..(c - 1) -> {NULL} \cup Cats]
          /\ \A x \in 0..(c - 1) : CATEGORY_HEADS[x] \in {NULL, Cat(x)}
          /\ dn \in 0..(MaxSlots - k - c)
          /\ DISTANCES \in [0..(dn - 1) -> {NULL} \cup Dists]
          /\ \A x \in 0..(dn - 1) : DISTANCES[x] \in {NULL, Dist(x)}
          /\ pn \in 0..(MaxSlots - k - c - dn)
          /\ pi \in 0..pn
          /\ POINTS \in [0..(pn - 1) -> {NULL, Stray} \cup Vals]
          /\ \A x \in 0..(pn - 1) :
                IF x < pi THEN POINTS[x] = Val(x) ELSE POINTS[x] \in {NULL, Stray}
          /\ heap = [a \in {a \in Allocs :
                                \/ a \in {PointsArr, Stray}
                                \/ a \in Nodes /\ a[2] < k /\ a[3] <= m[a[2]]
                                \/ \E x \in 0..(c - 1) : CATEGORY_HEADS[x] = a
                                \/ \E x \in 0..(dn - 1) : DISTANCES[x] = a
                                \/ \E x \in 0..(pi - 1) : POINTS[x] = a} |-> "live"]
          /\ next = [nd \in Nodes \cap DOMAIN heap |->
                        IF nd[3] < m[nd[2]] THEN Node(nd[2], nd[3] + 1) ELSE NULL]
    /\ nfree = [a \in DOMAIN heap |-> 0]
    /\ pc = [o \in Ops |-> "idle"]
    /\ calls = [o \in Ops |-> 0]
    /\ ci = 0 /\ ptr = NULL /\ prev = NULL
    /\ cati = 0 /\ disti = 0 /\ pj = 0
    /\ iters = [x \in 0..(k - 1) |-> 0]
    /\ touched = {}
    /\ faults = {}
    /\ crashed = FALSE
    /\ wild = 0

\* ---------------------------------------------------------------- C semantics
\* free(p): a no-op on NULL, releases a live allocation, and is undefined
\* behaviour on anything else (the allocator aborts, or carries on).
\* DOMAIN heap is the set of allocations ever made.
Free(p) ==
    IF p = NULL
    THEN UNCHANGED <<heap, nfree, faults, crashed>>
    ELSE IF p \notin DOMAIN heap
    THEN /\ faults' = faults \cup {"invalid_free"}
         /\ crashed' \in BOOLEAN
         /\ UNCHANGED <<heap, nfree>>
    ELSE /\ nfree[p] < MaxFree
         /\ nfree' = [nfree EXCEPT ![p] = @ + 1]
         /\ IF heap[p] = "live"
            THEN /\ heap' = [heap EXCEPT ![p] = "freed"]
                 /\ UNCHANGED <<faults, crashed>>
            ELSE /\ UNCHANGED heap
                 /\ faults' = faults \cup {"double_free"}
                 /\ crashed' \in BOOLEAN

\* p->next: the stored link of a live node; undefined behaviour on NULL and on
\* freed memory (a fault, or whatever value the memory happens to hold).
LoadNext(p) ==
    IF p \in Nodes \cap DOMAIN heap /\ heap[p] = "live"
    THEN {[val |-> next[p], fault |-> {}, crash |-> FALSE]}
    ELSE IF wild >= MaxWild THEN {}
    ELSE LET f == IF p = NULL THEN {"null_deref"} ELSE {"use_after_free"}
         IN  {[val |-> NULL, fault |-> f, crash |-> TRUE]}
             \cup {[val |-> v, fault |-> f, crash |-> FALSE] :
                      v \in (Nodes \cap DOMAIN heap) \cup {NULL}}

Running(o) == pc[o] \notin {"idle", "done"}
Quiescent  == \A o \in Ops : ~Running(o)

\* Entry of a release operation: its loop index starts at 0.
Invoke(o) ==
    /\ ~crashed
    /\ ~Running(o)
    /\ calls' = [calls EXCEPT ![o] = @ + 1]
    /\ pc' = [pc EXCEPT ![o] = "for"]
    /\ ci' = IF o = "cluster" THEN 0 ELSE ci
    /\ iters' = IF o = "cluster" THEN [x \in 0..(k - 1) |-> 0] ELSE iters
    /\ cati' = IF o = "category" THEN 0 ELSE cati
    /\ disti' = IF o = "distances" THEN 0 ELSE disti
    /\ pj' = IF o = "points" THEN 0 ELSE pj
    /\ UNCHANGED <<args, heap, nfree, ptr, prev, touched, faults, crashed, wild>>

\* ---------------------------------------------------------------- free_cluster_list
\* for (size_t i = 0; i < k; i++) { ptr = PTR_CLUSTER_HEADS[i]; ...
ClusterFor ==
    /\ ~crashed /\ pc["cluster"] = "for"
    /\ IF ci < k
       THEN /\ ptr' = PTR_CLUSTER_HEADS[ci]
            /\ pc' = [pc EXCEPT !["cluster"] = "while"]
       ELSE /\ pc' = [pc EXCEPT !["cluster"] = "done"]
            /\ UNCHANGED ptr
    /\ UNCHANGED <<args, heap, nfree, calls, ci, prev, cati, disti, pj, iters,
                   touched, faults, crashed, wild>>

\* Variant: the loop tests the cursor itself, while (ptr != NULL).
ClusterWhile_PtrTest ==
    /\ ~crashed /\ pc["cluster"] = "while"
    /\ pc' = [pc EXCEPT !["cluster"] = IF ptr # NULL THEN "body" ELSE "last"]
    /\ UNCHANGED <<args, heap, nfree, calls, ci, ptr, prev, cati, disti, pj, iters,
                   touched, faults, crashed, wild>>

\* while (ptr->next != NULL)
ClusterWhile ==
    /\ ~crashed /\ pc["cluster"] = "while"
    /\ \E r \in LoadNext(ptr) :
          /\ faults' = faults \cup r.fault
          /\ crashed' = r.crash
          /\ wild' = IF r.fault = {} THEN wild ELSE wild + 1
          /\ pc' = [pc EXCEPT !["cluster"] = IF r.val # NULL THEN "body" ELSE "last"]
    /\ UNCHANGED <<args, heap, nfree, calls, ci, ptr, prev, cati, disti, pj, iters,
                   touched>>

\* Variant: the two statements swapped, ptr = ptr->next; prev = ptr;
ClusterAdvance_Swapped ==
    /\ ~crashed /\ pc["cluster"] = "body"
    /\ \E r \in LoadNext(ptr) :
          /\ faults' = faults \cup r.fault
          /\ crashed' = r.crash
          /\ wild' = IF r.fault = {} THEN wild ELSE wild + 1
          /\ ptr' = r.val
          /\ prev' = r.val
    /\ pc' = [pc EXCEPT !["cluster"] = "free_prev"]
    /\ UNCHANGED <<args, heap, nfree, calls, ci, cati, disti, pj, iters, touched>>

\* prev = ptr; ptr = ptr->next;
ClusterAdvance ==
    /\ ~crashed /\ pc["cluster"] = "body"
    /\ \E r \in LoadNext(ptr) :
          /\ faults' = faults \cup r.fault
          /\ crashed' = r.crash
          /\ wild' = IF r.fault = {} THEN wild ELSE wild + 1
          /\ prev' = ptr
          /\ ptr' = r.val
    /\ pc' = [pc EXCEPT !["cluster"] = "free_prev"]
    /\ UNCHANGED <<args, heap, nfree, calls, ci, cati, disti, pj, iters, touched>>

\* free(prev);  (end of the loop body)
ClusterFreePrev ==
    /\ ~crashed /\ pc["cluster"] = "free_prev"
    /\ Free(prev)
    /\ iters' = [iters EXCEPT ![ci] = @ + 1]
    /\ pc' = [pc EXCEPT !["cluster"] = "while"]
    /\ UNCHANGED <<args, calls, ci, ptr, prev, cati, disti, pj, touched, wild>>

\* Variant: the free(ptr) after the loop left out.
ClusterFreeLast_Leak ==
    /\ ~crashed /\ pc["cluster"] = "last"
    /\ ci' = ci + 1
    /\ pc' = [pc EXCEPT !["cluster"] = "for"]
    /\ UNCHANGED <<args, heap, nfree, faults, crashed, calls, ptr, prev, cati, disti,
                   pj, iters, touched, wild>>

\* free(ptr);  then i++ of the outer loop
ClusterFreeLast ==
    /\ ~crashed /\ pc["cluster"] = "last"
    /\ Free(ptr)
    /\ ci' = ci + 1
    /\ pc' = [pc EXCEPT !["cluster"] = "for"]
    /\ UNCHANGED <<args, calls, ptr, prev, cati, disti, pj, iters, touched, wild>>

\* Variant: a null slot taken as the end of the array.
CategoryFree_StopAtNull ==
    /\ ~crashed /\ pc["category"] = "for"
    /\ IF cati < c /\ CATEGORY_HEADS[cati] # NULL
       THEN /\ Free(CATEGORY_HEADS[cati])
            /\ cati' = cati + 1
            /\ UNCHANGED pc
       ELSE /\ pc' = [pc EXCEPT !["category"] = "done"]
            /\ cati' = c
            /\ UNCHANGED <<heap, nfree, faults, crashed>>
    /\ UNCHANGED <<args, calls, ci, ptr, prev, disti, pj, iters, touched, wild>>

\* Variant: a slot already released is skipped, as if release were idempotent.
CategoryFree_Once ==
    /\ ~crashed /\ pc["category"] = "for"
    /\ IF cati < c
       THEN /\ IF CATEGORY_HEADS[cati] # NULL /\ heap[CATEGORY_HEADS[cati]] = "freed"
               THEN UNCHANGED <<heap, nfree, faults, crashed>>
               ELSE Free(CATEGORY_HEADS[cati])
            /\ cati' = cati + 1
            /\ UNCHANGED pc
       ELSE /\ pc' = [pc EXCEPT !["category"] = "done"]
            /\ UNCHANGED <<heap, nfree, faults, crashed, cati>>
    /\ UNCHANGED <<args, calls, ci, ptr, prev, disti, pj, iters, touched, wild>>

\* ---------------------------------------------------------------- free_category_indices
\* for (size_t i = 0; i < c; i++) free(CATEGORY_HEADS[i]);
CategoryFree ==
    /\ ~crashed /\ pc["category"] = "for"
    /\ IF cati < c
       THEN /\ Free(CATEGORY_HEADS[cati])
            /\ cati' = cati + 1
            /\ UNCHANGED pc
       ELSE /\ pc' = [pc EXCEPT !["category"] = "done"]
            /\ UNCHANGED <<heap, nfree, faults, crashed, cati>>
    /\ UNCHANGED <<args, calls, ci, ptr, prev, disti, pj, iters, touched, wild>>

\* Variant: the index dropped, free(DISTANCES[0]) on every round.
DistancesFree_RowZero ==
    /\ ~crashed /\ pc["distances"] = "for"
    /\ IF disti < dn
       THEN /\ Free(DISTANCES[0])
            /\ disti' = disti + 1
            /\ UNCHANGED pc
       ELSE /\ pc' = [pc EXCEPT !["distances"] = "done"]
            /\ UNCHANGED <<heap, nfree, faults, crashed, disti>>
    /\ UNCHANGED <<args, calls, ci, ptr, prev, cati, pj, iters, touched, wild>>

\* Variant: the loop body copied from free_category_indices, free(CATEGORY_HEADS[i]).
DistancesFree_CopyPaste ==
    /\ ~crashed /\ pc["distances"] = "for"
    /\ IF disti < dn
       THEN /\ Free(IF disti < c THEN CATEGORY_HEADS[disti] ELSE NULL)
            /\ disti' = disti + 1
            /\ UNCHANGED pc
       ELSE /\ pc' = [pc EXCEPT !["distances"] = "done"]
            /\ UNCHANGED <<heap, nfree, faults, crashed, disti>>
    /\ UNCHANGED <<args, calls, ci, ptr, prev, cati, pj, iters, touched, wild>>

\* ---------------------------------------------------------------- free_distances
\* for (size_t i = 0; i < n; i++) free(DISTANCES[i]);
DistancesFree ==
    /\ ~crashed /\ pc["distances"] = "for"
    /\ IF disti < dn
       THEN /\ Free(DISTANCES[disti])
            /\ disti' = disti + 1
            /\ UNCHANGED pc
       ELSE /\ pc' = [pc EXCEPT !["distances"] = "done"]
            /\ UNCHANGED <<heap, nfree, faults, crashed, disti>>
    /\ UNCHANGED <<args, calls, ci, ptr, prev, cati, pj, iters, touched, wild>>

\* Variant: the loop runs over the whole array, j < n.
PointsFree_WholeArray ==
    /\ ~crashed /\ pc["points"] = "for"
    /\ IF pj < pn
       THEN /\ Free(POINTS[pj])
            /\ touched' = touched \cup {pj}
            /\ pj' = pj + 1
            /\ UNCHANGED pc
       ELSE /\ pc' = [pc EXCEPT !["points"] = "done"]
            /\ UNCHANGED <<heap, nfree, faults, crashed, pj, touched>>
    /\ UNCHANGED <<args, calls, ci, ptr, prev, cati, disti, iters, wild>>

\* Variant: free(POINTS) added after the loop.
PointsFree_FreesArray ==
    /\ ~crashed /\ pc["points"] = "for"
    /\ IF pj < pi
       THEN /\ Free(POINTS[pj])
            /\ touched' = touched \cup {pj}
            /\ pj' = pj + 1
            /\ UNCHANGED pc
       ELSE /\ pc' = [pc EXCEPT !["points"] = "done"]
            /\ Free(PointsArr)
            /\ UNCHANGED <<pj, touched>>
    /\ UNCHANGED <<args, calls, ci, ptr, prev, cati, disti, iters, wild>>

\* ---------------------------------------------------------------- free_points
\* for (size_t j = 0; j < i; j++) free(POINTS[j].values);
PointsFree ==
    /\ ~crashed /\ pc["points"] = "for"
    /\ IF pj < pi
       THEN /\ Free(POINTS[pj])
            /\ touched' = touched \cup {pj}
            /\ pj' = pj + 1
            /\ UNCHANGED pc
       ELSE /\ pc' = [pc EXCEPT !["points"] = "done"]
            /\ UNCHANGED <<heap, nfree, faults, crashed, pj, touched>>
    /\ UNCHANGED <<args, calls, ci, ptr, prev, cati, disti, iters, wild>>

Step ==
    \/ ClusterFor \/ ClusterWhile \/ ClusterAdvance \/ ClusterFreePrev \/ ClusterFreeLast
    \/ CategoryFree \/ DistancesFree \/ PointsFree

\* ---------------------------------------------------------------- callers
\* The program is single-threaded: each release runs to completion, once, at
\* the end of the run, in whatever order the caller chooses.
Call == \E o \in Ops : Quiescent /\ calls[o] = 0 /\ Invoke(o)

Next == Call \/ Step

Spec == Init /\ [][Next]_vars

\* A caller that runs the whole teardown again on the structures it has already
\* released (no reset between), each pass in the order ClusterList, CategoryIndex,
\* DistanceMatrix, PointStore.
Rank(o) == CASE o = "cluster" -> 0 [] o = "category" -> 1
             [] o = "distances" -> 2 [] o = "points" -> 3

CallAgain ==
    \E o \in Ops :
       /\ Quiescent
       /\ calls[o] < MaxCalls
       /\ \A e \in Ops : calls[e] = IF Rank(e) < Rank(o) THEN calls[o] + 1 ELSE calls[o]
       /\ Invoke(o)

NextTwice == CallAgain \/ Step

SpecTwice == Init /\ [][NextTwice]_vars

\* The four releases started as concurrent processes; their steps interleave.
CallPar == \E o \in Ops : calls[o] = 0 /\ Invoke(o)

NextPar == CallPar \/ Step

\* Inputs that meet the precondition of free_cluster_list: no head is null.
ValidHeads == \A x \in 0..(k - 1) : PTR_CLUSTER_HEADS[x] # NULL

InitPar == Init /\ ValidHeads

SpecPar == InitPar /\ [][NextPar]_vars

\* ---------------------------------------------------------------- vocabulary of the claims
\* The nodes reachable from p along `next`, and the chain of cluster x.
RECURSIVE Chain(_)
Chain(p) == IF p = NULL THEN {} ELSE {p} \cup Chain(next[p])

ChainOf(x) == Chain(PTR_CLUSTER_HEADS[x])
AllChains  == UNION {ChainOf(x) : x \in 0..(k - 1)}

\* 1-based position of node nd in its chain.
Pos(nd, x) == 1 + Cardinality({p \in ChainOf(x) : p # nd /\ nd \in Chain(p)})

Slots(arr, len) == {arr[x] : x \in 0..(len - 1)} \ {NULL}
Finished(o) == calls[o] = 1 /\ pc[o] = "done"
FreedOnce(a) == a \in DOMAIN heap /\ heap[a] = "freed" /\ nfree[a] = 1
Untouched(a) == a \in DOMAIN heap => (nfree[a] = 0 /\ heap[a] = "live")

\* ---------------------------------------------------------------- C1
\* C1: given k >= 1 non-null heads of acyclic, unshared chains, a completed
\* free_cluster_list has freed every node reachable from a head exactly once and
\* nothing else (sum of m_i frees), with no fault; and at no moment of the call
\* has any node been freed twice.
C1_ClusterListFreedExactlyOnce ==
    (ValidHeads /\ k >= 1) =>
        /\ \A nd \in Nodes \cap DOMAIN nfree : nfree[nd] <= 1
        /\ faults = {} /\ ~crashed
        /\ Finished("cluster") =>
              /\ \A nd \in AllChains : FreedOnce(nd)
              /\ \A nd \in Nodes \ AllChains : Untouched(nd)

\* k = 3 clusters with chains of 1, 2 and 1 nodes: 4 nodes freed.
C1_Witness ==
    /\ ValidHeads /\ k = 3 /\ Finished("cluster")
    /\ Cardinality(ChainOf(0)) = 1 /\ Cardinality(ChainOf(1)) = 2
    /\ Cardinality(ChainOf(2)) = 1
    /\ Cardinality({nd \in DOMAIN heap : FreedOnce(nd)}) = 4

\* ---------------------------------------------------------------- C2
\* C2: for 0 <= i <= n, free_points reads only POINTS[0..i-1]; when it has
\* completed, exactly those i `values` allocations are freed, each once, and
\* nothing at indices i..n-1 and no allocation that was never made is released.
C2_PointsPrefixOnly ==
    /\ touched \subseteq 0..(pi - 1)
    /\ "invalid_free" \notin faults
    /\ \A x \in pi..(pn - 1) : POINTS[x] # NULL => Untouched(POINTS[x])
    /\ Finished("points") =>
          /\ touched = 0..(pi - 1)
          /\ \A x \in 0..(pi - 1) : FreedOnce(POINTS[x])
          /\ \A a \in Vals \ Slots(POINTS, pi) : Untouched(a)

C2_Witness ==
    /\ Finished("points") /\ 0 < pi /\ pi < pn
    /\ \E x \in pi..(pn - 1) : POINTS[x] = Stray
    /\ \A x \in 0..(pi - 1) : FreedOnce(POINTS[x])

\* ---------------------------------------------------------------- C3
\* C3: free_category_indices frees each non-null slot exactly once, in a call
\* that meets no fault; a null slot changes nothing on the heap: at every moment
\* the frees done are exactly those of the non-null slots below the loop index.
C3_CategorySlotsFreedOnce ==
    /\ \A x \in 0..(c - 1) :
          CATEGORY_HEADS[x] # NULL =>
             IF calls["category"] = 1 /\ (pc["category"] = "done" \/ x < cati)
             THEN FreedOnce(CATEGORY_HEADS[x])
             ELSE Untouched(CATEGORY_HEADS[x])
    /\ \A a \in Cats \ Slots(CATEGORY_HEADS, c) : Untouched(a)
    /\ ValidHeads => faults = {} /\ ~crashed
    /\ Finished("category") => cati = c

\* c = 4 categories with slots [null, ptr, null, ptr]: exactly 2 frees.
C3_Witness ==
    /\ Finished("category") /\ c = 4
    /\ CATEGORY_HEADS[0] = NULL /\ CATEGORY_HEADS[2] = NULL
    /\ CATEGORY_HEADS[1] # NULL /\ CATEGORY_HEADS[3] # NULL
    /\ {a \in DOMAIN heap : nfree[a] > 0} = {CATEGORY_HEADS[1], CATEGORY_HEADS[3]}
    /\ FreedOnce(CATEGORY_HEADS[1]) /\ FreedOnce(CATEGORY_HEADS[3])
    /\ faults = {} /\ ~crashed

\* ---------------------------------------------------------------- C4
\* C4: free_distances frees each non-null row exactly once and a null row is a
\* no-op: at every moment the frees done are exactly those of the non-null rows
\* below the loop index, and the call meets no fault.
C4_DistanceRowsFreedOnce ==
    /\ \A x \in 0..(dn - 1) :
          DISTANCES[x] # NULL =>
             IF calls["distances"] = 1 /\ (pc["distances"] = "done" \/ x < disti)
             THEN FreedOnce(DISTANCES[x])
             ELSE Untouched(DISTANCES[x])
    /\ \A a \in Dists \ Slots(DISTANCES, dn) : Untouched(a)
    /\ ValidHeads => faults = {} /\ ~crashed
    /\ Finished("distances") => disti = dn

C4_Witness ==
    /\ Finished("distances") /\ dn >= 2
    /\ \E x \in 0..(dn - 1) : DISTANCES[x] = NULL
    /\ \E x \in 0..(dn - 1) : DISTANCES[x] # NULL /\ FreedOnce(DISTANCES[x])
    /\ faults = {} /\ ~crashed

\* ---------------------------------------------------------------- C5
\* C5: free_cluster_list never reads the `next` field of a null head (it would
\* fail fast with InvalidState instead).
C5_NeverDereferencesNullHead == "null_deref" \notin faults

C5_NullHeadDereferenced ==
    /\ \E x \in 0..(k - 1) : PTR_CLUSTER_HEADS[x] = NULL
    /\ "null_deref" \in faults

\* ---------------------------------------------------------------- C6
\* C6: release is not idempotent.  In a repeated call (no reset in between)
\* every non-null slot, row or `values` pointer the loop has passed has been
\* handed to free() once per call, so from the second call on it is a double
\* free; a repeated free_cluster_list reads freed nodes and frees the head of
\* cluster 0 again.  Only null slots stay harmless: allocations no slot holds
\* are never touched, and structures holding only nulls raise no fault.
TimesFreed(o, idx, x) == IF pc[o] = "for" /\ x >= idx THEN calls[o] - 1 ELSE calls[o]

C6_ReleaseNotIdempotent ==
    /\ \A x \in 0..(c - 1) :
          CATEGORY_HEADS[x] # NULL =>
             nfree[CATEGORY_HEADS[x]] = TimesFreed("category", cati, x)
    /\ \A x \in 0..(dn - 1) :
          DISTANCES[x] # NULL => nfree[DISTANCES[x]] = TimesFreed("distances", disti, x)
    /\ \A x \in 0..(pi - 1) : nfree[POINTS[x]] = TimesFreed("points", pj, x)
    /\ \A a \in DOMAIN nfree : nfree[a] >= 2 => "double_free" \in faults
    /\ (ValidHeads /\ k >= 1 /\ calls["cluster"] >= 2
           /\ (ci > 0 \/ pc["cluster"] \in {"body", "free_prev", "last"})) =>
          "use_after_free" \in faults
    /\ (ValidHeads /\ k >= 1 /\ calls["cluster"] >= 2 /\ (ci > 0 \/ iters[0] > 0)) =>
          nfree[PTR_CLUSTER_HEADS[0]] >= 2
    /\ \A a \in (Cats \ Slots(CATEGORY_HEADS, c)) \cup (Dists \ Slots(DISTANCES, dn))
                \cup (Vals \ Slots(POINTS, pi)) \cup {Stray, PointsArr} : Untouched(a)
    /\ (AllChains = {} /\ Slots(CATEGORY_HEADS, c) = {} /\ Slots(DISTANCES, dn) = {}
           /\ pi = 0) => (/\ faults \subseteq {"null_deref"}
                         /\ heap = [a \in {Stray, PointsArr} |-> "live"])

C6_Witness ==
    /\ calls["category"] = 2 /\ pc["category"] = "done" /\ c >= 2
    /\ \E x \in 0..(c - 1) : CATEGORY_HEADS[x] = NULL
    /\ \E x \in 0..(c - 1) : CATEGORY_HEADS[x] # NULL /\ nfree[CATEGORY_HEADS[x]] = 2
    /\ calls["cluster"] = 2 /\ k >= 1 /\ ValidHeads /\ nfree[PTR_CLUSTER_HEADS[0]] = 2
    /\ "double_free" \in faults /\ "use_after_free" \in faults

\* ---------------------------------------------------------------- C7
\* C7: no step ever changes the POINTS array or releases its storage, and the
\* `values` pointers at indices >= i are neither read nor released.
C7_PointsArrayKept ==
    /\ [](/\ heap[PointsArr] = "live" /\ nfree[PointsArr] = 0
          /\ heap[Stray] = "live" /\ nfree[Stray] = 0
          /\ touched \cap pi..(pn - 1) = {})
    /\ [][POINTS' = POINTS /\ pn' = pn /\ pi' = pi]_vars

C7_Witness ==
    /\ Finished("points") /\ pi >= 1 /\ pi < pn
    /\ heap[PointsArr] = "live" /\ heap[POINTS[0]] = "freed"

\* ---------------------------------------------------------------- C8
\* C8: with non-null heads, every `next` read of free_cluster_list is on a live
\* node: the cursor ptr is live whenever it is about to be read or freed, and
\* when prev is about to be freed the cursor already stands on its successor.
C8_NoUseAfterFree ==
    ValidHeads =>
        /\ "use_after_free" \notin faults /\ "null_deref" \notin faults
        /\ pc["cluster"] \in {"while", "body", "last"} => ptr # NULL /\ heap[ptr] = "live"
        /\ pc["cluster"] = "free_prev" =>
              /\ prev # NULL /\ heap[prev] = "live"
              /\ ptr # NULL /\ ptr # prev /\ ptr = next[prev] /\ heap[ptr] = "live"

C8_Witness ==
    /\ ValidHeads /\ pc["cluster"] = "while" /\ iters[ci] >= 1
    /\ heap[ptr] = "live" /\ heap[prev] = "freed" /\ next[prev] = ptr

\* ---------------------------------------------------------------- C9
\* C9: with non-null heads the clusters are processed in index order; in
\* cluster i the inner loop has freed exactly the first iters[i] nodes, in chain
\* order; it exits after m_i - 1 iterations standing on the terminal node,
\* which is freed after the loop.  The call cannot get stuck and every step
\* lowers a natural-number measure, so free_cluster_list terminates.
ChainLen(x) == Cardinality(ChainOf(x))

Weight(p) == CASE p = "for" -> 4 [] p = "while" -> 3 [] p = "body" -> 2
               [] p = "free_prev" -> 1 [] OTHER -> 0

Measure == 4 * Cardinality({nd \in AllChains : heap[nd] = "live"}) + 4 * (k - ci)
              + Weight(pc["cluster"])

ClusterStep ==
    ClusterFor \/ ClusterWhile \/ ClusterAdvance \/ ClusterFreePrev \/ ClusterFreeLast

C9_Order ==
    (ValidHeads /\ calls["cluster"] = 1) =>
        /\ ci <= k
        /\ pc["cluster"] = "done" => ci = k
        /\ \A x \in 0..(k - 1) :
              /\ x < ci => iters[x] = ChainLen(x) - 1 /\ \A nd \in ChainOf(x) : FreedOnce(nd)
              /\ x > ci => iters[x] = 0 /\ \A nd \in ChainOf(x) : Untouched(nd)
              /\ (x = ci /\ pc["cluster"] = "for") => \A nd \in ChainOf(x) : Untouched(nd)
              /\ (x = ci /\ pc["cluster"] # "for") =>
                    /\ iters[x] <= ChainLen(x) - 1
                    /\ \A nd \in ChainOf(x) :
                          IF Pos(nd, x) <= iters[x] THEN FreedOnce(nd) ELSE Untouched(nd)
                    /\ pc["cluster"] \in {"while", "body", "last"} =>
                          ptr \in ChainOf(x) /\ Pos(ptr, x) = iters[x] + 1
                    /\ pc["cluster"] = "free_prev" =>
                          prev \in ChainOf(x) /\ Pos(prev, x) = iters[x] + 1
                    /\ pc["cluster"] = "last" =>
                          iters[x] = ChainLen(x) - 1 /\ next[ptr] = NULL
        /\ Running("cluster") => ENABLED ClusterStep

C9_TerminatesInOrder ==
    /\ []C9_Order
    /\ [][(ValidHeads /\ ClusterStep) => (Measure' < Measure /\ Measure' >= 0)]_vars

C9_Witness ==
    /\ ValidHeads /\ Finished("cluster") /\ k >= 2
    /\ \E x \in 0..(k - 1) : ChainLen(x) >= 2 /\ iters[x] = ChainLen(x) - 1
    /\ \E x \in 0..(k - 1) : ChainLen(x) = 1 /\ iters[x] = 0

\* ---------------------------------------------------------------- C10
\* C10: run as concurrent processes on valid structures, the four releases
\* end, under every interleaving, in the one heap a sequential run ends in
\* (every owned allocation freed once, everything else as it was), with no
\* fault on the way.  The structures own disjoint allocations when the releases
\* start and no step rewrites them; every step changes at most one allocation,
\* the one held by the slot, row or node the stepping operation stands on.
OwnedBy(o) ==
    CASE o = "cluster" -> AllChains
      [] o = "category" -> Slots(CATEGORY_HEADS, c)
      [] o = "distances" -> Slots(DISTANCES, dn)
      [] o = "points" -> Slots(POINTS, pi)

Target(o) ==
    CASE o = "cluster" -> IF pc[o] = "free_prev" THEN {prev}
                          ELSE IF pc[o] = "last" THEN {ptr} ELSE {}
      [] o = "category" -> IF cati < c THEN {CATEGORY_HEADS[cati]} ELSE {}
      [] o = "distances" -> IF disti < dn THEN {DISTANCES[disti]} ELSE {}
      [] o = "points" -> IF pj < pi THEN {POINTS[pj]} ELSE {}

Changed == {a \in DOMAIN heap : heap'[a] # heap[a] \/ nfree'[a] # nfree[a]}

C10_Disjoint ==
    /\ faults = {} /\ ~crashed
    /\ \A a \in DOMAIN nfree : nfree[a] <= 1
    /\ (\A o \in Ops : calls[o] = 0) =>
          \A o1, o2 \in Ops : o1 # o2 => OwnedBy(o1) \cap OwnedBy(o2) = {}
    /\ (\A o \in Ops : Finished(o)) =>
          LET all == UNION {OwnedBy(o) : o \in Ops}
          IN  /\ \A a \in all : FreedOnce(a)
              /\ \A a \in Allocs \ all : Untouched(a)

Moved(o) ==
    \/ pc'[o] # pc[o]
    \/ o = "category" /\ cati' # cati
    \/ o = "distances" /\ disti' # disti
    \/ o = "points" /\ pj' # pj

C10_Frame ==
    /\ args' = args
    /\ Cardinality({o \in Ops : Moved(o)}) <= 1
    /\ \/ heap' = heap /\ nfree' = nfree
       \/ LET ch == Changed
          IN  \E o \in Ops : Moved(o) /\ ch = Target(o) /\ ch \subseteq OwnedBy(o)
                                /\ Cardinality(ch) = 1

====
